---- MODULE Spec2Model ----
(***************************************************************************)
(* Model of sandbox/database.py: the price-line parser of                  *)
(* get_yahoo_prices, the SQLite store written by create_db and save_to_db, *)
(* and the populate_db driver.                                             *)
(*                                                                         *)
(* Strings whose characters the code inspects (response lines, symbols of  *)
(* a symbol file) are sequences of one-character strings.  A table is a    *)
(* bag of rows: SQL tables are multisets, and only the unique index keeps  *)
(* a key from occurring twice.                                             *)
(***************************************************************************)
EXTENDS Integers, Sequences, FiniteSets, Bags, TLC

\* ------------------------------------------------------------------ bounds
MaxBatch == 2      \* records in one batch handed to save_to_db by a caller
MaxLines == 2      \* data lines after the header in one HTTP response
MaxRows == 3       \* rows in a TimeSeries table that has no unique index
MaxFileLines == 2  \* rows of a symbol file
MaxFieldLen == 2   \* characters in the first field of a symbol-file row

\* What a call that returns None, or raises, gives back: no number.
NoValue == 0 - 1

\* ------------------------------------------------------- program constants
SymbolBytes == 8   \* 'S8' in schema
FieldCount == 7    \* len(items) != 7

\* ------------------------------------------------------------ input values
Symbols == {<<"A", "B", "C">>, <<"X", "Y", "Z">>}
Dates == {1, 2}
\* The open prices a symbol is quoted at on a day: one symbol comes with two
\* different quotes for day 1.
Opens(sy, d) == IF sy = <<"A", "B", "C">> /\ d = 1 THEN {3, 4} ELSE {3}
Digits == {"1", "2", "3", "4"}

DigitVal(c) == CASE c = "1" -> 1 [] c = "2" -> 2 [] c = "3" -> 3 [] c = "4" -> 4

Min(a, b) == IF a < b THEN a ELSE b

\* ------------------------------------------------------------------- schema
\* numpy schema: symbol is 'S8', so a longer symbol is cut to 8 bytes.
S8(sym) == SubSeq(sym, 1, Min(Len(sym), SymbolBytes))

\* One element of the numpy array, in schema order.
Record(sym, dt, opn, high, low, close, volume, adjclose) ==
    <<S8(sym), dt, opn, high, low, close, volume, adjclose>>

\* The INSERT binds the tuple positionally to the eight columns.
ToRow(t) ==
    [Cd |-> t[1], Date |-> t[2], Open |-> t[3], High |-> t[4], Low |-> t[5],
     Close |-> t[6], Volume |-> t[7], AdjClose |-> t[8]]

AllTables == {"TimeSeries", "Assets", "GicsSectors"}
AllIndexes == {"Idx_TimeSeries"}

\* No file at the path.
AbsentStore ==
    [exists |-> FALSE, tables |-> {}, indexes |-> {},
     TimeSeries |-> EmptyBag, Assets |-> EmptyBag, GicsSectors |-> EmptyBag]

\* ---------------------------------------------------------------- create_db
\* Without the os.path.exists test the schema is created over what is there.
CreateDbNoCheck(s) ==
    [store |-> [exists |-> TRUE, tables |-> AllTables, indexes |-> AllIndexes,
                TimeSeries |-> EmptyBag, Assets |-> EmptyBag,
                GicsSectors |-> EmptyBag],
     error |-> "None"]

create_db(s) ==
    IF s.exists
    THEN [store |-> s, error |-> "IOError"]
    ELSE [store |-> [exists |-> TRUE, tables |-> AllTables,
                     indexes |-> AllIndexes,
                     TimeSeries |-> EmptyBag, Assets |-> EmptyBag,
                     GicsSectors |-> EmptyBag],
          error |-> "None"]

\* --------------------------------------------------------------- save_to_db
\* if not os.path.exists(dbfilename): create_db(dbfilename)
EnsureNothing(s) == s

EnsureSchema(s) == IF ~s.exists THEN create_db(s).store ELSE s

\* sqlite3.connect: opens the file (creating an empty database when there is
\* none); total_changes of a fresh connection is 0.
ConnectShared(s) ==
    [store |-> [s EXCEPT !.exists = TRUE],
     total_changes |-> BagCardinality(s.TimeSeries)]

Connect(s) == [store |-> [s EXCEPT !.exists = TRUE], total_changes |-> 0]

\* CREATE UNIQUE INDEX Idx_TimeSeries ON TimeSeries (Cd, Date): the insert of
\* row r is refused when the index exists and a row has r's (Cd, Date).
NoUniqueCheck(s, r) == FALSE

\* An index over all eight columns refuses only a row stored as it is.
UniqueOnWholeRow(s, r) ==
    /\ "Idx_TimeSeries" \in s.indexes
    /\ r \in BagToSet(s.TimeSeries)

UniqueViolation(s, r) ==
    /\ "Idx_TimeSeries" \in s.indexes
    /\ \E q \in BagToSet(s.TimeSeries) : q.Cd = r.Cd /\ q.Date = r.Date

\* c.executemany(sql, data.tolist()): the rows are inserted one by one inside
\* the implicit transaction; the first refused row raises IntegrityError and
\* ends the loop, the rows inserted before it stay pending.  A missing table
\* raises OperationalError at once.
RECURSIVE ExecuteManyFrom(_, _, _)
ExecuteManyFrom(conn, data, i) ==
    IF i > Len(data)
    THEN [conn |-> conn, error |-> "None", at |-> 0]
    ELSE IF "TimeSeries" \notin conn.store.tables
    THEN [conn |-> conn, error |-> "OperationalError", at |-> i]
    ELSE IF UniqueViolation(conn.store, ToRow(data[i]))
    THEN [conn |-> conn, error |-> "IntegrityError", at |-> i]
    ELSE ExecuteManyFrom(
             [store |-> [conn.store EXCEPT
                            !.TimeSeries = @ (+) SetToBag({ToRow(data[i])})],
              total_changes |-> conn.total_changes + 1],
             data, i + 1)

\* INSERT OR IGNORE: a refused row is skipped and the loop goes on.
RECURSIVE ExecuteManySkip(_, _, _)
ExecuteManySkip(conn, data, i) ==
    IF i > Len(data)
    THEN [conn |-> conn, error |-> "None", at |-> 0]
    ELSE IF "TimeSeries" \notin conn.store.tables
    THEN [conn |-> conn, error |-> "OperationalError", at |-> i]
    ELSE IF UniqueViolation(conn.store, ToRow(data[i]))
    THEN ExecuteManySkip(conn, data, i + 1)
    ELSE ExecuteManySkip(
             [store |-> [conn.store EXCEPT
                            !.TimeSeries = @ (+) SetToBag({ToRow(data[i])})],
              total_changes |-> conn.total_changes + 1],
             data, i + 1)

\* INSERT OR REPLACE: a refused row replaces the stored row of its key.
RECURSIVE ExecuteManyReplace(_, _, _)
ExecuteManyReplace(conn, data, i) ==
    IF i > Len(data)
    THEN [conn |-> conn, error |-> "None", at |-> 0]
    ELSE IF "TimeSeries" \notin conn.store.tables
    THEN [conn |-> conn, error |-> "OperationalError", at |-> i]
    ELSE LET r == ToRow(data[i])
             kept == {q \in BagToSet(conn.store.TimeSeries) :
                         ~(UniqueViolation(conn.store, r)
                           /\ q.Cd = r.Cd /\ q.Date = r.Date)}
         IN ExecuteManyReplace(
                [store |-> [conn.store EXCEPT
                               !.TimeSeries = SetToBag(kept) (+) SetToBag({r})],
                 total_changes |-> conn.total_changes + 1],
                data, i + 1)

ExecuteManySkipAll(conn, data) == ExecuteManySkip(conn, data, 1)

ExecuteManyReplaceAll(conn, data) == ExecuteManyReplace(conn, data, 1)

ExecuteMany(conn, data) == ExecuteManyFrom(conn, data, 1)

\* The whole of save_to_db.  IntegrityError is caught and passed over, the
\* pending rows are committed and conn.total_changes is returned; any other
\* error leaves the function before the commit, and the pending rows of the
\* connection are rolled back.  `schema` is what the file holds when the
\* insert is attempted.
save_to_db(s, data) ==
    LET ensured == EnsureSchema(s)
        conn == Connect(ensured)
        done == ExecuteMany(conn, data)
        schema == [exists |-> conn.store.exists, tables |-> conn.store.tables,
                   indexes |-> conn.store.indexes]
    IN IF done.error \in {"None", "IntegrityError"}
       THEN [store |-> done.conn.store, error |-> "None",
             result |-> done.conn.total_changes,
             caught |-> done.error, at |-> done.at, schema |-> schema]
       ELSE [store |-> conn.store, error |-> done.error, result |-> NoValue,
             caught |-> "None", at |-> done.at, schema |-> schema]

\* --------------------------------------------------------- get_yahoo_prices
Whitespace == {" ", "\n"}

RECURSIVE lstrip(_)
lstrip(str) ==
    IF str # <<>> /\ Head(str) \in Whitespace THEN lstrip(Tail(str)) ELSE str

RECURSIVE rstrip(_)
rstrip(str) ==
    IF str # <<>> /\ str[Len(str)] \in Whitespace
    THEN rstrip(SubSeq(str, 1, Len(str) - 1))
    ELSE str

\* str.strip()
strip(str) == rstrip(lstrip(str))

\* str.split(sep): the fields between the separators; n separators give
\* n + 1 fields, an empty string gives one empty field.
RECURSIVE SplitFrom(_, _, _, _)
SplitFrom(str, sep, i, field) ==
    IF i > Len(str) THEN <<field>>
    ELSE IF str[i] = sep THEN <<field>> \o SplitFrom(str, sep, i + 1, <<>>)
    ELSE SplitFrom(str, sep, i + 1, Append(field, str[i]))

split(str, sep) == SplitFrom(str, sep, 1, <<>>)

\* float(x) of a field: decimal digits give their value, anything else (an
\* empty field, a letter) raises ValueError.
IsFloat(x) == x # <<>> /\ \A i \in 1..Len(x) : x[i] \in Digits

RECURSIVE float(_)
float(x) ==
    IF Len(x) = 1 THEN DigitVal(x[1])
    ELSE 10 * float(SubSeq(x, 1, Len(x) - 1)) + DigitVal(x[Len(x)])

\* np.array(data, dtype=schema) reads the date string as 'M8[D]'.  A date is
\* written here as its day number; a string that is no date raises
\* ValueError.
IsDate(x) == IsFloat(x)

date(x) == float(x)

\* for line in lines[1:]: one pass of the loop body at line i; `out` is the
\* list `data` so far.  A line of another field count is passed over with
\* `continue`; a field that is no number ends the call with ValueError.
RECURSIVE ParseFrom(_, _, _, _)
ParseFrom(sym, lines, i, out) ==
    IF i > Len(lines) THEN [data |-> out, error |-> "None"]
    ELSE LET items == split(strip(lines[i]), ",")
         IN IF Len(items) # FieldCount
            THEN ParseFrom(sym, lines, i + 1, out)
            ELSE IF \E k \in 2..7 : ~IsFloat(items[k])
            THEN [data |-> <<>>, error |-> "ValueError"]
            ELSE ParseFrom(sym, lines, i + 1,
                     Append(out, <<sym, items[1], float(items[2]),
                                   float(items[3]), float(items[4]),
                                   float(items[5]), float(items[6]),
                                   float(items[7])>>))

\* `break` in place of `continue`: the first malformed line ends the loop.
RECURSIVE ParseFromBreak(_, _, _, _)
ParseFromBreak(sym, lines, i, out) ==
    IF i > Len(lines) THEN [data |-> out, error |-> "None"]
    ELSE LET items == split(strip(lines[i]), ",")
         IN IF Len(items) # FieldCount
            THEN [data |-> out, error |-> "None"]
            ELSE IF \E k \in 2..7 : ~IsFloat(items[k])
            THEN [data |-> <<>>, error |-> "ValueError"]
            ELSE ParseFromBreak(sym, lines, i + 1,
                     Append(out, <<sym, items[1], float(items[2]),
                                   float(items[3]), float(items[4]),
                                   float(items[5]), float(items[6]),
                                   float(items[7])>>))

\* npdata = np.array(data, dtype=schema)
ToArray(parsed) ==
    IF parsed.error # "None" THEN parsed
    ELSE IF \E k \in 1..Len(parsed.data) : ~IsDate(parsed.data[k][2])
    THEN [data |-> <<>>, error |-> "ValueError"]
    ELSE [data |-> [k \in 1..Len(parsed.data) |->
                       LET t == parsed.data[k]
                       IN Record(t[1], date(t[2]), t[3], t[4], t[5], t[6],
                                 t[7], t[8])],
          error |-> "None"]

ParseLinesBreak(sym, lines) == ToArray(ParseFromBreak(sym, lines, 2, <<>>))

\* The part of get_yahoo_prices after filehandle.readlines().
ParseLines(sym, lines) == ToArray(ParseFrom(sym, lines, 2, <<>>))

\* -------------------------------------------------- populate_db: symbol file
badchars == <<"/", ":", "^", "%", "\\">>

\* str.replace(old, new) for one-character old and new.
replace(str, old, new) ==
    [i \in 1..Len(str) |-> IF str[i] = old THEN new ELSE str[i]]

\* for itm in badchars: symb = symb.replace(itm, "-");
\*                      symbolset.add(symb.strip())
\* The add is inside the loop over badchars: the value is added after every
\* single replacement.
RECURSIVE SanitizeFrom(_, _, _)
SanitizeFrom(symb, k, symbolset) ==
    IF k > Len(badchars) THEN symbolset
    ELSE LET replaced == replace(symb, badchars[k], "-")
         IN SanitizeFrom(replaced, k + 1, symbolset \cup {strip(replaced)})

\* for line in reader: symb = line[0]; ...   (`file` is the sequence of the
\* first fields of the rows csv.reader yields)
RECURSIVE LoadFrom(_, _, _)
LoadFrom(file, n, symbolset) ==
    IF n > Len(file) THEN symbolset
    ELSE LoadFrom(file, n + 1, SanitizeFrom(file[n], 1, symbolset))

LoadSymbols(file) == LoadFrom(file, 1, {})

\* ------------------------------------------------------ populate_db: driver
\* get_yahoo_prices and the loop body have no try/except: an error of the
\* fetch or the parse leaves populate_db.
AfterFetchContinue(error) == IF error = "None" THEN "save" ELSE "loop"

AfterFetch(error) == IF error = "None" THEN "save" ELSE "aborted"

\* ---------------------------------------------------------- bounded inputs
Range(f) == {f[i] : i \in DOMAIN f}

SeqsUpTo(S, n) == UNION {[1..k -> S] : k \in 0..n}

Records ==
    UNION {{Record(sy, d, o, 3, 3, 3, 3, 3) : o \in Opens(sy, d)} :
              sy \in Symbols, d \in Dates}

Batches == SeqsUpTo(Records, MaxBatch)

RECURSIVE Join(_)
Join(fields) ==
    IF Len(fields) = 1 THEN fields[1]
    ELSE fields[1] \o <<",">> \o Join(Tail(fields))

Header ==
    Join(<< <<"D">>, <<"O">>, <<"H">>, <<"L">>, <<"C">>, <<"V">>, <<"J">> >>)
        \o <<"\n">>

\* A response line of n fields: a date, an open price and n - 2 more numbers.
Line(n, d, o) ==
    Join([k \in 1..n |-> IF k = 1 THEN <<d>> ELSE IF k = 2 THEN <<o>> ELSE <<"3">>])
        \o <<"\n">>

LinePool ==
    {Line(FieldCount, "1", "3"), Line(FieldCount, "2", "3"),
     Line(FieldCount, "2", "x"),
     Line(FieldCount - 1, "1", "3"), Line(FieldCount + 1, "2", "3")}

Responses ==
    {<<>>} \cup {<<Header>> \o body : body \in SeqsUpTo(LinePool, MaxLines)}

SymbolLists == SeqsUpTo(Symbols, Cardinality(Symbols))

FileChars == {"A", " "} \cup Range(badchars)

FileFields == UNION {[1..k -> FileChars] : k \in 1..MaxFieldLen}

Files == SeqsUpTo(FileFields, MaxFileLines)

\* -------------------------------------------------------------------- state
VARIABLES
    store,       \* the database file at the path
    pc,          \* where populate_db stands: idle, loop, save, done, or
                 \* aborted (an exception left it and ended the run)
    symbolsArg,  \* populate_db's argument `symbols`
    symbollist,  \* populate_db's symbollist
    todo,        \* symbols the for loop has not reached yet
    symbol,      \* the loop variable
    lines,       \* the response lines read by the last get_yahoo_prices
    data,        \* the array get_yahoo_prices returned
    save_count,
    rec_count,
    prev,        \* the store before the last call
    lastCall,    \* the function that ran last
    caller,      \* who called it: user or populate_db
    lastData,    \* the batch of the last save_to_db
    lastReturn,  \* the number the last save_to_db returned, else NoValue
    raised,      \* the exception the last call raised, or "None"
    lastInsert,  \* the executemany of the last save_to_db
    repeated     \* the last save_to_db repeated the batch of the call before it

vars ==
    <<store, pc, symbolsArg, symbollist, todo, symbol, lines, data, save_count,
      rec_count, prev, lastCall, caller, lastData, lastReturn, raised,
      lastInsert, repeated>>

NoSchema == [exists |-> FALSE, tables |-> {}, indexes |-> {}]

NoInsert == [caught |-> "None", at |-> 0, schema |-> NoSchema]

NoArg == [kind |-> "none", value |-> <<>>]

InitWith(s) ==
    /\ store = s
    /\ prev = s
    /\ pc = "idle"
    /\ symbolsArg = NoArg
    /\ symbollist = {}
    /\ todo = {}
    /\ symbol = <<>>
    /\ lines = <<>>
    /\ data = <<>>
    /\ save_count = 0
    /\ rec_count = 0
    /\ lastCall = "none"
    /\ caller = "user"
    /\ lastData = <<>>
    /\ lastReturn = NoValue
    /\ raised = "None"
    /\ lastInsert = NoInsert
    /\ repeated = FALSE

\* The path is absent before the first call.
Init == InitWith(AbsentStore)

\* A file some other program left at the path: an empty file, a database
\* with the tables but without the index, or one with the full schema.
StartStores ==
    {AbsentStore,
     [AbsentStore EXCEPT !.exists = TRUE],
     [AbsentStore EXCEPT !.exists = TRUE, !.tables = AllTables],
     [AbsentStore EXCEPT !.exists = TRUE, !.tables = AllTables,
                         !.indexes = AllIndexes]}

InitAnyPath == \E s \in StartStores : InitWith(s)

\* populate_db is not running: a caller may call a function of the module.
Idle == pc \in {"idle", "done"}

\* The locals of a populate_db that has ended are gone.
DropLocals ==
    /\ pc' = "idle"
    /\ symbolsArg' = NoArg
    /\ symbollist' = {}
    /\ todo' = {}
    /\ symbol' = <<>>
    /\ lines' = <<>>
    /\ data' = <<>>
    /\ save_count' = 0
    /\ rec_count' = 0

\* A table without the unique index grows without limit: stop at MaxRows.
Fits(s, d) ==
    \/ "Idx_TimeSeries" \in EnsureSchema(s).indexes
    \/ BagCardinality(s.TimeSeries) + Len(d) <= MaxRows

\* ------------------------------------------------------------------ actions
CreateDb ==
    /\ Idle
    /\ \E r \in {create_db(store)} :
          /\ store' = r.store
          /\ raised' = r.error
    /\ lastReturn' = NoValue
    /\ prev' = store
    /\ lastCall' = "create_db"
    /\ caller' = "user"
    /\ lastData' = <<>>
    /\ lastInsert' = NoInsert
    /\ repeated' = FALSE
    /\ DropLocals

SaveToDb(d) ==
    /\ Idle
    /\ Fits(store, d)
    /\ \E r \in {save_to_db(store, d)} :
          /\ store' = r.store
          /\ lastReturn' = r.result
          /\ raised' = r.error
          /\ lastInsert' = [caught |-> r.caught, at |-> r.at, schema |-> r.schema]
    /\ prev' = store
    /\ lastCall' = "save_to_db"
    /\ caller' = "user"
    /\ lastData' = d
    /\ repeated' = (lastCall = "save_to_db" /\ lastData = d /\ raised = "None")
    /\ DropLocals

\* populate_db(symbols, ...) with a list of symbols: symbollist = set(symbols)
PopulateDb(syms) ==
    /\ Idle
    /\ symbolsArg' = [kind |-> "list", value |-> syms]
    /\ symbollist' = Range(syms)
    /\ todo' = Range(syms)
    /\ pc' = "loop"
    /\ save_count' = 0
    /\ rec_count' = 0
    /\ symbol' = <<>>
    /\ lines' = <<>>
    /\ data' = <<>>
    /\ prev' = store
    /\ lastCall' = "populate_db"
    /\ caller' = "user"
    /\ lastData' = <<>>
    /\ lastReturn' = NoValue
    /\ raised' = "None"
    /\ lastInsert' = NoInsert
    /\ repeated' = FALSE
    /\ UNCHANGED store

\* populate_db(symbols, ...) with the path of a symbol file
PopulateDbFile(file) ==
    /\ Idle
    /\ symbolsArg' = [kind |-> "file", value |-> file]
    /\ symbollist' = LoadSymbols(file)
    /\ todo' = LoadSymbols(file)
    /\ pc' = "loop"
    /\ save_count' = 0
    /\ rec_count' = 0
    /\ symbol' = <<>>
    /\ lines' = <<>>
    /\ data' = <<>>
    /\ prev' = store
    /\ lastCall' = "populate_db"
    /\ caller' = "user"
    /\ lastData' = <<>>
    /\ lastReturn' = NoValue
    /\ raised' = "None"
    /\ lastInsert' = NoInsert
    /\ repeated' = FALSE
    /\ UNCHANGED store

\* for symbol in list(symbollist): data = get_yahoo_prices(symbol, ...)
\* urlopen raises IOError, or the response is read and parsed.
GetYahooPrices ==
    /\ pc = "loop"
    /\ \E sym \in todo :
          /\ symbol' = sym
          /\ todo' = todo \ {sym}
          /\ \/ /\ lines' = <<>>
                /\ data' = <<>>
                /\ raised' = "IOError"
                /\ pc' = AfterFetch("IOError")
             \/ \E ls \in Responses :
                   \E r \in {ParseLines(sym, ls)} :
                      /\ lines' = ls
                      /\ data' = r.data
                      /\ raised' = r.error
                      /\ pc' = AfterFetch(r.error)
    /\ lastReturn' = NoValue
    /\ prev' = store
    /\ lastCall' = "get_yahoo_prices"
    /\ caller' = "populate_db"
    /\ lastData' = <<>>
    /\ lastInsert' = NoInsert
    /\ repeated' = FALSE
    /\ UNCHANGED <<store, symbolsArg, symbollist, save_count, rec_count>>

\* num_saved = save_to_db(data, dbfilename) and the counters after it
PopulateSave ==
    /\ pc = "save"
    /\ Fits(store, data)
    /\ \E r \in {save_to_db(store, data)} :
          /\ store' = r.store
          /\ lastReturn' = r.result
          /\ raised' = r.error
          /\ lastInsert' = [caught |-> r.caught, at |-> r.at, schema |-> r.schema]
          /\ IF r.error = "None"
             THEN /\ pc' = "loop"
                  /\ save_count' = IF r.result # 0 THEN save_count + 1 ELSE save_count
                  /\ rec_count' = IF r.result # 0 THEN rec_count + r.result ELSE rec_count
             ELSE /\ pc' = "aborted"
                  /\ UNCHANGED <<save_count, rec_count>>
    /\ prev' = store
    /\ lastCall' = "save_to_db"
    /\ caller' = "populate_db"
    /\ lastData' = data
    /\ repeated' = FALSE
    /\ lines' = <<>>
    /\ UNCHANGED <<symbolsArg, symbollist, todo, symbol, data>>

\* The loop is over: print "Saved %s records for %s out of %s symbols"
PopulateReturn ==
    /\ pc = "loop"
    /\ todo = {}
    /\ pc' = "done"
    /\ prev' = store
    /\ lastCall' = "populate_db"
    /\ caller' = "populate_db"
    /\ lastData' = <<>>
    /\ lastReturn' = NoValue
    /\ raised' = "None"
    /\ lastInsert' = NoInsert
    /\ repeated' = FALSE
    /\ symbol' = <<>>
    /\ lines' = <<>>
    /\ data' = <<>>
    /\ UNCHANGED <<store, symbolsArg, symbollist, todo, save_count, rec_count>>

Next ==
    \/ CreateDb
    \/ \E d \in Batches : SaveToDb(d)
    \/ \E syms \in SymbolLists : PopulateDb(syms)
    \/ GetYahooPrices
    \/ PopulateSave
    \/ PopulateReturn

Spec == Init /\ [][Next]_vars

\* The same calls on a path that may hold a file before the first of them.
SpecAnyPath == InitAnyPath /\ [][Next]_vars

\* populate_db reading its symbols from a file.
NextFile == \E file \in Files : PopulateDbFile(file)

SpecFile == Init /\ [][NextFile]_vars

\* ------------------------------------------------------------- properties
TimeSeries == store.TimeSeries

Key(r) == <<r.Cd, r.Date>>

KeysOf(bag) == {Key(q) : q \in BagToSet(bag)}

RowsOf(d) == {ToRow(d[i]) : i \in 1..Len(d)}

FullSchema(x) ==
    x.exists /\ x.tables = AllTables /\ x.indexes = AllIndexes

SchemaOf(s) == [exists |-> s.exists, tables |-> s.tables, indexes |-> s.indexes]

\* C1: no two rows of TimeSeries share the same (symbol, date), whatever
\* create_db and save_to_db calls were made on the path.
UniqueKeys ==
    \A q \in BagToSet(TimeSeries) :
        /\ CopiesIn(q, TimeSeries) = 1
        /\ \A p \in BagToSet(TimeSeries) : Key(p) = Key(q) => p = q

\* A save met a duplicate key while the table holds several rows.
UniqueKeysWitness ==
    /\ lastCall = "save_to_db"
    /\ lastInsert.caught = "IntegrityError"
    /\ BagCardinality(TimeSeries) >= 2

\* C2: a save_to_db that repeats the batch of the save_to_db just before it
\* returns 0 and leaves the store as the first call left it.
SaveTwiceIdempotent ==
    repeated => lastReturn = 0 /\ store = prev

\* The repeated batch is not empty and all its rows are in the table.
SaveTwiceWitness ==
    /\ repeated
    /\ Len(lastData) >= 2
    /\ RowsOf(lastData) \subseteq BagToSet(TimeSeries)

\* C3: a save_to_db carrying a record with the key of a stored row and other
\* prices leaves that row as it is and adds no row for the key.
FirstAcceptedSurvives ==
    lastCall = "save_to_db" =>
        \A q \in BagToSet(prev.TimeSeries) :
            (\E r \in RowsOf(lastData) : Key(r) = Key(q) /\ r # q) =>
                /\ CopiesIn(q, TimeSeries) = 1
                /\ \A p \in BagToSet(TimeSeries) : Key(p) = Key(q) => p = q

\* A save carried a variant of a stored row with another price.
FirstAcceptedWitness ==
    /\ lastCall = "save_to_db"
    /\ raised = "None"
    /\ \E q \in BagToSet(prev.TimeSeries) :
          \E r \in RowsOf(lastData) : Key(r) = Key(q) /\ r.Open # q.Open

\* C4: the number save_to_db returns is the number of rows the call added to
\* TimeSeries.
ReturnCountsRowsAdded ==
    (lastCall = "save_to_db" /\ raised = "None") =>
        lastReturn = BagCardinality(TimeSeries) - BagCardinality(prev.TimeSeries)

\* A save on a store that held rows added a row and then met a duplicate.
ReturnCountsWitness ==
    /\ lastCall = "save_to_db"
    /\ lastInsert.caught = "IntegrityError"
    /\ lastReturn >= 1
    /\ prev.TimeSeries # EmptyBag

\* C5: create_db on an existing path raises IOError and changes nothing; on
\* an absent path it returns and leaves the three tables, empty, and the
\* unique index.
CreateDbContract ==
    lastCall = "create_db" =>
        IF prev.exists
        THEN raised = "IOError" /\ store = prev
        ELSE /\ raised = "None"
             /\ FullSchema(store)
             /\ store.TimeSeries = EmptyBag
             /\ store.Assets = EmptyBag
             /\ store.GicsSectors = EmptyBag

\* create_db was called on a store that holds rows.
CreateDbWitness ==
    /\ lastCall = "create_db"
    /\ raised = "IOError"
    /\ prev.TimeSeries # EmptyBag

\* C6 as claimed: whatever is at the path, the three tables and the unique
\* index exist when save_to_db attempts the insert, and it never raises the
\* exists error.
SaveAlwaysEnsuresSchema ==
    lastCall = "save_to_db" =>
        FullSchema(lastInsert.schema) /\ raised # "IOError"

\* C6 amended: save_to_db never raises the exists error; on an absent path,
\* or a path holding the full schema, the tables and the index exist when
\* the insert is attempted; on an existing path it creates nothing, the
\* insert meets the schema the file had.
SaveEnsuresSchemaOfAbsentPath ==
    lastCall = "save_to_db" =>
        /\ raised # "IOError"
        /\ (~prev.exists \/ FullSchema(prev)) => FullSchema(lastInsert.schema)
        /\ prev.exists => lastInsert.schema = SchemaOf(prev)

\* A save on an absent path created the schema and stored a row.
SaveEnsuresSchemaWitness ==
    /\ lastCall = "save_to_db"
    /\ ~prev.exists
    /\ lastReturn >= 1

\* C7: every symbol populate_db loads from a symbol file is free of the
\* characters / : ^ % \ .
SanitizedSymbolsClean ==
    symbolsArg.kind = "file" =>
        \A sym \in symbollist :
            \A i \in 1..Len(sym) : sym[i] \notin Range(badchars)

\* The number of comma-separated fields of a string.
NumFields(str) == Cardinality({i \in 1..Len(str) : str[i] = ","}) + 1

\* The k-th comma-separated field of a string.
FieldAt(str, k) ==
    LET idx == {i \in 1..Len(str) :
                   /\ str[i] # ","
                   /\ Cardinality({j \in 1..i : str[j] = ","}) = k - 1}
    IN IF idx = {} THEN <<>>
       ELSE SubSeq(str, CHOOSE i \in idx : \A j \in idx : i <= j,
                        CHOOSE i \in idx : \A j \in idx : j <= i)

SevenFields(line) == NumFields(strip(line)) = 7

\* The lines after the header that have exactly 7 fields, in input order.
Kept(ls) == IF ls = <<>> THEN <<>> ELSE SelectSeq(Tail(ls), SevenFields)

Numeric(line) ==
    \A k \in 1..7 :
        LET f == FieldAt(strip(line), k)
        IN f # <<>> /\ \A i \in 1..Len(f) : f[i] \in Digits

ExpectedRecords(sym, ls) ==
    [k \in 1..Len(Kept(ls)) |->
        LET f(n) == float(FieldAt(strip(Kept(ls)[k]), n))
        IN <<sym, f(1), f(2), f(3), f(4), f(5), f(6), f(7)>>]

\* C8 as claimed: for every response, get_yahoo_prices produces exactly the
\* lines after the header that have 7 fields, in input order.
ParserEmitsSevenFieldLines ==
    (lastCall = "get_yahoo_prices" /\ raised # "IOError") =>
        raised = "None" /\ data = ExpectedRecords(symbol, lines)

\* C8 amended: when every 7-field line after the header holds a date and six
\* numbers, get_yahoo_prices returns exactly those lines as records, in
\* input order; when one of them holds a field that is no number, it raises
\* ValueError and produces no records.
ParserEmitsOrRaises ==
    (lastCall = "get_yahoo_prices" /\ raised # "IOError") =>
        IF \A k \in 1..Len(Kept(lines)) : Numeric(Kept(lines)[k])
        THEN raised = "None" /\ data = ExpectedRecords(symbol, lines)
        ELSE raised = "ValueError" /\ data = <<>>

\* A line of another field count came before a 7-field line that was emitted.
ParserWitness ==
    /\ lastCall = "get_yahoo_prices"
    /\ raised = "None"
    /\ Len(lines) = 3
    /\ ~SevenFields(lines[2])
    /\ SevenFields(lines[3])
    /\ Len(data) = 1

\* C9: a failure of the fetch or the parse ends populate_db: the store is as
\* the symbols before left it, no step follows, and the symbols not yet
\* reached stay unprocessed; a uniqueness violation inside save_to_db lets
\* the loop go on.
AbortEndsBatch ==
    [][/\ (lastCall' = "get_yahoo_prices" /\ raised' # "None") =>
              (pc' = "aborted" /\ store' = store /\ todo' = todo \ {symbol'})
       /\ pc = "aborted" => FALSE
       /\ (lastCall' = "save_to_db" /\ caller' = "populate_db"
             /\ lastInsert'.caught = "IntegrityError") =>
              (pc' = "loop" /\ raised' = "None")]_vars

\* populate_db was left by an error while a symbol was still to come and the
\* store held rows.
AbortWitness ==
    /\ pc = "aborted"
    /\ todo # {}
    /\ TimeSeries # EmptyBag

\* The positions of a batch whose key is stored or came earlier in the batch.
DupPositions(old, d) ==
    {i \in 1..Len(d) :
        Key(ToRow(d[i])) \in KeysOf(old) \cup {Key(ToRow(d[j])) : j \in 1..(i - 1)}}

\* C10: when a batch meets a uniqueness violation at its i-th record, exactly
\* the records before position i are persisted and none at or after it.
ViolationKeepsPrefixOnly ==
    (lastCall = "save_to_db" /\ raised = "None"
       /\ DupPositions(prev.TimeSeries, lastData) # {}) =>
        LET dups == DupPositions(prev.TimeSeries, lastData)
            i == CHOOSE n \in dups : \A m \in dups : n <= m
        IN /\ lastInsert.caught = "IntegrityError"
           /\ lastInsert.at = i
           /\ TimeSeries =
                  prev.TimeSeries (+) SetToBag({ToRow(lastData[j]) : j \in 1..(i - 1)})

\* A record after the violating one had a key the store does not hold.
ViolationWitness ==
    /\ lastCall = "save_to_db"
    /\ lastInsert.caught = "IntegrityError"
    /\ \E j \in (lastInsert.at + 1)..Len(lastData) :
          Key(ToRow(lastData[j])) \notin KeysOf(TimeSeries)

====
